---- MODULE Spec2Model ----
(***************************************************************************)
(* chasm front end: the logos lexer of src/tokens.rs and the recursive     *)
(* descent parser of src/parser.rs, as a state machine.                    *)
(*                                                                         *)
(* Text is a sequence of one-character strings.  A TokenKind is a record   *)
(* [tag, s, n]: s is the String/char payload (Ident, StrLit, CharLit), n   *)
(* the i64 payload (IntLit, HexLit, BinLit, OctLit).  A Token is           *)
(* [kind, text].  The cursor pos is 0-based as in the source; the token at *)
(* the cursor is tokens[pos + 1].                                          *)
(***************************************************************************)
EXTENDS Integers, Sequences, FiniteSets, TLC

VARIABLES input, tokens, pos, stack, ret, ast, status, err, call

vars == <<input, tokens, pos, stack, ret, ast, status, err, call>>

(***************************************************************************)
(* Lexer: src/tokens.rs                                                    *)
(***************************************************************************)

Lower == {"a","b","c","d","e","f","g","h","i","j","k","l","m",
          "n","o","p","q","r","s","t","u","v","w","x","y","z"}

Upper == {"A","B","C","D","E","F","G","H","I","J","K","L","M",
          "N","O","P","Q","R","S","T","U","V","W","X","Y","Z"}

Digit == {"0","1","2","3","4","5","6","7","8","9"}

HexDigit == Digit \cup {"a","b","c","d","e","f","A","B","C","D","E","F"}

BinDigit == {"0","1"}

OctDigit == {"0","1","2","3","4","5","6","7"}

IdentStart == Lower \cup Upper \cup {"_"}

IdentCont == IdentStart \cup Digit

WhiteChars == {" ", "\t", "\r", "\n"}

\* The #[token(...)] patterns, in declaration order.  The grave accent cannot
\* be written in a TLA+ string; the one-character string "BACKTICK" stands for it.
FixedTokens ==
  << [lex |-> <<"~">>, tag |-> "Tilde"],
     [lex |-> <<"BACKTICK">>, tag |-> "Grave"],
     [lex |-> <<"#">>, tag |-> "Pound"],
     [lex |-> <<"+">>, tag |-> "Plus"],
     [lex |-> <<"+","+">>, tag |-> "PlusPlus"],
     [lex |-> <<"-">>, tag |-> "Minus"],
     [lex |-> <<"-","-">>, tag |-> "MinusMinus"],
     [lex |-> <<"*">>, tag |-> "Star"],
     [lex |-> <<"/">>, tag |-> "Slash"],
     [lex |-> <<"%">>, tag |-> "Mod"],
     [lex |-> <<"!">>, tag |-> "Bang"],
     [lex |-> <<">">>, tag |-> "Greater"],
     [lex |-> <<">",">">>, tag |-> "GreaterGreater"],
     [lex |-> <<"<">>, tag |-> "Less"],
     [lex |-> <<"<","<">>, tag |-> "LessLess"],
     [lex |-> <<"&">>, tag |-> "Amp"],
     [lex |-> <<"&","&">>, tag |-> "AmpAmp"],
     [lex |-> <<"|">>, tag |-> "Pipe"],
     [lex |-> <<"|","|">>, tag |-> "PipePipe"],
     [lex |-> <<"^">>, tag |-> "Xor"],
     [lex |-> <<"v","a","r">>, tag |-> "Var"],
     [lex |-> <<"c","o","n","s","t">>, tag |-> "Const"],
     [lex |-> <<"i","n","c","l","u","d","e">>, tag |-> "Include"],
     [lex |-> <<"m","a","c","r","o","_","r","u","l","e","s","!">>, tag |-> "MacroRules"],
     [lex |-> <<"f","o","r","!">>, tag |-> "ForBang"],
     [lex |-> <<"=">>, tag |-> "Equal"],
     [lex |-> <<"(">>, tag |-> "LeftParen"],
     [lex |-> <<")">>, tag |-> "RightParen"],
     [lex |-> <<"{">>, tag |-> "LeftBrace"],
     [lex |-> <<"}">>, tag |-> "RightBrace"],
     [lex |-> <<",">>, tag |-> "Comma"],
     [lex |-> <<":">>, tag |-> "Colon"],
     [lex |-> <<".">>, tag |-> "Dot"],
     [lex |-> <<";">>, tag |-> "Semicolon"],
     [lex |-> <<":",":">>, tag |-> "DoubleColon"] >>

\* A TokenKind value; variants without data carry the empty payload.
Kind(tag, s, n) == [tag |-> tag, s |-> s, n |-> n]

Unit(tag) == Kind(tag, <<>>, 0)

Ident(s) == Kind("Ident", s, 0)

IntLit(n) == Kind("IntLit", <<>>, n)

Token(kind, text) == [kind |-> kind, text |-> text]

\* text[i..j] (1-based, inclusive), the lexer's slice.
Slice(text, i, j) == SubSeq(text, i, j)

MatchAt(text, i, lex) ==
  /\ i + Len(lex) - 1 <= Len(text)
  /\ \A k \in 1..Len(lex) : text[i + k - 1] = lex[k]

RECURSIVE RunLen(_, _, _)
\* Length of the maximal run of characters of class S starting at i.
RunLen(text, i, S) ==
  IF i <= Len(text) /\ text[i] \in S THEN 1 + RunLen(text, i + 1, S) ELSE 0

\* Longest #[token] pattern matching at i (0: none).
FixedLen(text, i) ==
  LET lens == {Len(FixedTokens[k].lex) :
                 k \in {j \in 1..Len(FixedTokens) : MatchAt(text, i, FixedTokens[j].lex)}}
  IN  IF lens = {} THEN 0 ELSE CHOOSE n \in lens : \A l \in lens : l <= n

FixedTag(text, i, len) ==
  FixedTokens[CHOOSE k \in 1..Len(FixedTokens) :
                /\ Len(FixedTokens[k].lex) = len
                /\ MatchAt(text, i, FixedTokens[k].lex)].tag

\* [A-Za-z_][A-Za-z0-9_]*
IdentLen(text, i) ==
  IF text[i] \in IdentStart THEN 1 + RunLen(text, i + 1, IdentCont) ELSE 0

\* @[A-Za-z_][A-Za-z0-9_]*
AtDirectiveLen(text, i) ==
  IF text[i] = "@" /\ i + 1 <= Len(text) /\ text[i + 1] \in IdentStart
  THEN 2 + RunLen(text, i + 2, IdentCont) ELSE 0

\* 0x[0-9A-Fa-f]+, 0b[01]+, 0o[0-7]+ : prefix letter p, digit class S.
RadixLen(text, i, p, S) ==
  IF /\ text[i] = "0"
     /\ i + 1 <= Len(text)
     /\ text[i + 1] = p
     /\ RunLen(text, i + 2, S) > 0
  THEN 2 + RunLen(text, i + 2, S) ELSE 0

\* [0-9]+
IntLen(text, i) == RunLen(text, i, Digit)

RECURSIVE StrBodyEnd(_, _)
\* Index of the closing quote of "([^"\\]|\\.)*" whose body starts at j (0: none).
StrBodyEnd(text, j) ==
  IF j > Len(text) THEN 0
  ELSE IF text[j] = "\"" THEN j
  ELSE IF text[j] = "\\"
       THEN IF j + 1 <= Len(text) /\ text[j + 1] # "\n"
            THEN StrBodyEnd(text, j + 2) ELSE 0
  ELSE StrBodyEnd(text, j + 1)

StrLen(text, i) ==
  IF text[i] = "\"" /\ StrBodyEnd(text, i + 1) > 0
  THEN StrBodyEnd(text, i + 1) - i + 1 ELSE 0

\* '([^'\\]|\\.)'
CharLen(text, i) ==
  IF text[i] # "'" THEN 0
  ELSE IF /\ i + 2 <= Len(text)
          /\ text[i + 1] \notin {"'", "\\"}
          /\ text[i + 2] = "'" THEN 3
  ELSE IF /\ i + 3 <= Len(text)
          /\ text[i + 1] = "\\"
          /\ text[i + 2] # "\n"
          /\ text[i + 3] = "'" THEN 4
  ELSE 0

HexChars == <<"0","1","2","3","4","5","6","7","8","9","a","b","c","d","e","f">>

UpperHex == [c \in {"A","B","C","D","E","F"} |->
               CASE c = "A" -> "a" [] c = "B" -> "b" [] c = "C" -> "c"
                 [] c = "D" -> "d" [] c = "E" -> "e" [] c = "F" -> "f"]

DigitVal(c) ==
  LET lc == IF c \in DOMAIN UpperHex THEN UpperHex[c] ELSE c
  IN  (CHOOSE k \in 1..Len(HexChars) : HexChars[k] = lc) - 1

RECURSIVE FromStrRadix(_, _)
\* i64::from_str_radix / str::parse::<i64> on a digit string (no sign): the
\* value.  The literals of the inputs are short, far inside the i64 range,
\* so the Err of an overflow (a panic of the unwrap) is outside the model.
FromStrRadix(digits, radix) ==
  IF digits = <<>> THEN 0
  ELSE FromStrRadix(SubSeq(digits, 1, Len(digits) - 1), radix) * radix
       + DigitVal(digits[Len(digits)])

\* parse_char on a slice 'c' or '\c': the character, or "PANIC" on an unknown escape.
parse_char(s) ==
  LET inner == SubSeq(s, 2, Len(s) - 1)
  IN  IF inner[1] = "\\"
      THEN CASE inner[2] = "n" -> "\n"
             [] inner[2] = "t" -> "\t"
             [] inner[2] = "r" -> "\r"
             [] inner[2] = "'" -> "'"
             [] inner[2] = "\\" -> "\\"
             [] OTHER -> "PANIC"
      ELSE inner[1]

\* The match logos takes at i: the longest one; of two of equal length
\* (a keyword and the identifier pattern) the #[token] wins.
\* [len, kind, panic]; len = 0 is a lexing error at i.
LexOne(text, i) ==
  LET fx  == FixedLen(text, i)
      id  == IdentLen(text, i)
      at  == AtDirectiveLen(text, i)
      hx  == RadixLen(text, i, "x", HexDigit)
      bn  == RadixLen(text, i, "b", BinDigit)
      oc  == RadixLen(text, i, "o", OctDigit)
      nt  == IntLen(text, i)
      st  == StrLen(text, i)
      ch  == CharLen(text, i)
      num(tag, len, from, radix) ==
        [len |-> len,
         kind |-> Kind(tag, <<>>, FromStrRadix(Slice(text, from, i + len - 1), radix)),
         panic |-> FALSE]
      tok(len, kind) == [len |-> len, kind |-> kind, panic |-> FALSE]
  IN  IF fx > 0 /\ fx >= id THEN tok(fx, Unit(FixedTag(text, i, fx)))
      ELSE IF id > 0 THEN tok(id, Ident(Slice(text, i, i + id - 1)))
      ELSE IF at > 0 THEN tok(at, Unit("AtDirective"))
      ELSE IF hx > 0 THEN num("HexLit", hx, i + 2, 16)
      ELSE IF bn > 0 THEN num("BinLit", bn, i + 2, 2)
      ELSE IF oc > 0 THEN num("OctLit", oc, i + 2, 8)
      ELSE IF nt > 0 THEN num("IntLit", nt, i, 10)
      ELSE IF st > 0 THEN tok(st, Kind("StrLit", Slice(text, i, i + st - 1), 0))
      ELSE IF ch > 0
           THEN LET c == parse_char(Slice(text, i, i + ch - 1))
                IN  [len |-> ch, kind |-> Kind("CharLit", <<c>>, 0), panic |-> c = "PANIC"]
      ELSE [len |-> 0, kind |-> Unit("Error"), panic |-> FALSE]

\* [ \t\r\n]+ is skipped: the first position at or after i that is no whitespace.
SkipWhitespace(text, i) == i + RunLen(text, i, WhiteChars)

RECURSIVE Matches(_, _)
\* The lexer's results from position i (no whitespace) on: the match at i,
\* then those behind it; behind the character at i when it is an error.
Matches(text, i) ==
  IF i > Len(text) THEN <<>>
  ELSE LET m == LexOne(text, i)
       IN  <<[at |-> i, len |-> m.len, kind |-> m.kind, panic |-> m.panic]>>
           \o Matches(text, SkipWhitespace(text, i + (IF m.len = 0 THEN 1 ELSE m.len)))

\* TokenStream::new: the tokens of the input; a lexing error (Err(_)) is
\* filtered out.  panic: a callback of the lexer panicked.
Lex(text) ==
  LET ms == Matches(text, SkipWhitespace(text, 1))
      ok == SelectSeq(ms, LAMBDA m : m.len > 0)
  IN  [toks |-> [k \in 1..Len(ok) |->
                   Token(ok[k].kind, Slice(text, ok[k].at, ok[k].at + ok[k].len - 1))],
       panic |-> \E k \in 1..Len(ms) : ms[k].panic]

(***************************************************************************)
(* TokenStream: src/parser.rs                                              *)
(***************************************************************************)

\* Option::None of Option<&Token>.
NoToken == Token(Unit("None"), <<>>)

\* self.tokens.get(self.pos)
peek(toks, p) == IF p < Len(toks) THEN toks[p + 1] ELSE NoToken

\* next without the test for the end: the cursor moves on at the end too.
next_unguarded(toks, p) == [tok |-> peek(toks, p), pos |-> p + 1]

\* [tok, pos]: the token returned and the cursor afterwards.
next(toks, p) ==
  [tok |-> peek(toks, p), pos |-> IF peek(toks, p) # NoToken THEN p + 1 ELSE p]

\* expect comparing the variant alone, not its data.
expect_tag_only(toks, p, expected) ==
  LET r == [tok |-> peek(toks, p), pos |-> IF peek(toks, p) # NoToken THEN p + 1 ELSE p]
  IN  IF r.tok = NoToken
      THEN [ok |-> FALSE, err |-> "Unexpected EOF", pos |-> r.pos]
      ELSE IF r.tok.kind.tag # expected.tag
      THEN [ok |-> FALSE, err |-> "Expected but found", pos |-> r.pos]
      ELSE [ok |-> TRUE, err |-> "", pos |-> r.pos]

\* [ok, err, pos]: a panic is ok = FALSE with its message in err.
expect(toks, p, expected) ==
  LET r == next(toks, p)
  IN  IF r.tok = NoToken
      THEN [ok |-> FALSE, err |-> "Unexpected EOF", pos |-> r.pos]
      ELSE IF r.tok.kind # expected
      THEN [ok |-> FALSE, err |-> "Expected but found", pos |-> r.pos]
      ELSE [ok |-> TRUE, err |-> "", pos |-> r.pos]

eof(toks, p) == p >= Len(toks)

(***************************************************************************)
(* Statement: src/parser.rs                                                *)
(***************************************************************************)

VarAssign(name, expr) == [type |-> "VarAssign", name |-> name, expr |-> expr]

ConstAssign(name, expr) == [type |-> "ConstAssign", name |-> name, expr |-> expr]

Label(name) == [type |-> "Label", name |-> name]

Instruction(name, args) == [type |-> "Instruction", name |-> name, args |-> args]

Directive(name, args) == [type |-> "Directive", name |-> name, args |-> args]

Include(file) == [type |-> "Include", file |-> file]

MacroDef(name, params, body) ==
  [type |-> "MacroDef", name |-> name, params |-> params, body |-> body]

ForLoop(var, start, end, body) ==
  [type |-> "ForLoop", var |-> var, start |-> start, end |-> end, body |-> body]

Block(body) == [type |-> "Block", body |-> body]

NoStmt == [type |-> "None"]

\* Outcomes of a parse function: Some(stmt), None, or a panic; each with the
\* cursor it leaves.
Some(stmt, p) == [out |-> "some", stmt |-> stmt, pos |-> p, err |-> ""]

NoneAt(p) == [out |-> "none", stmt |-> NoStmt, pos |-> p, err |-> ""]

Panic(msg, p) == [out |-> "panic", stmt |-> NoStmt, pos |-> p, err |-> msg]

RECURSIVE to_string(_)
\* i64::to_string of a non-negative value: its decimal digits.
to_string(n) ==
  IF n < 10 THEN <<HexChars[n + 1]>>
  ELSE Append(to_string(n \div 10), HexChars[(n % 10) + 1])

RECURSIVE trim_start_matches(_, _)
trim_start_matches(text, c) ==
  IF text # <<>> /\ text[1] = c THEN trim_start_matches(Tail(text), c) ELSE text

(***************************************************************************)
(* Parser: the functions that call no other parse function                 *)
(***************************************************************************)

\* The lookahead with its first arm matching any token after the identifier.
lookahead_is_label_any_second(toks, p) ==
  peek(toks, p).kind.tag = "Ident" /\ peek(toks, p + 1) # NoToken

lookahead_is_label(toks, p) ==
  LET a == peek(toks, p).kind.tag
      b == peek(toks, p + 1).kind.tag
  IN  IF a = "Ident" /\ b = "Colon" THEN TRUE
      ELSE IF a = "Dot" /\ b = "Ident"
      THEN peek(toks, p + 2).kind.tag = "Colon"
      ELSE IF a = "Colon" /\ b = "Colon"
      THEN /\ peek(toks, p + 2).kind.tag = "Ident"
           /\ peek(toks, p + 3).kind.tag = "Colon"
      ELSE FALSE

parse_label(toks, p) ==
  LET r == next(toks, p)
  IN  IF r.tok = NoToken THEN NoneAt(r.pos)
      ELSE IF r.tok.kind.tag = "Ident"
      THEN LET e == expect(toks, r.pos, Unit("Colon"))
           IN  IF e.ok THEN Some(Label(r.tok.kind.s), e.pos) ELSE Panic(e.err, e.pos)
      ELSE NoneAt(r.pos)

RECURSIVE instruction_args_dedup(_, _, _)
\* The loop of parse_instruction pushing an argument only when its text is new.
instruction_args_dedup(toks, p, args) ==
  LET k == peek(toks, p).kind
      a == IF k.tag = "IntLit" THEN to_string(k.n) ELSE k.s
      more == IF \E j \in 1..Len(args) : args[j] = a THEN args ELSE Append(args, a)
  IN  IF k.tag \in {"Ident", "IntLit", "StrLit", "CharLit"}
      THEN instruction_args_dedup(toks, next(toks, p).pos, more)
      ELSE [args |-> args, pos |-> p]

RECURSIVE instruction_args_label_aware(_, _, _)
\* The loop of parse_instruction ending before an identifier that a colon follows.
instruction_args_label_aware(toks, p, args) ==
  LET k == peek(toks, p).kind
      a == IF k.tag = "IntLit" THEN to_string(k.n) ELSE k.s
  IN  IF k.tag \in {"Ident", "IntLit", "StrLit", "CharLit"} /\ ~lookahead_is_label(toks, p)
      THEN instruction_args_label_aware(toks, next(toks, p).pos, Append(args, a))
      ELSE [args |-> args, pos |-> p]

RECURSIVE instruction_args(_, _, _)
\* The while-let loop of parse_instruction: [args, pos].
instruction_args(toks, p, args) ==
  LET k == peek(toks, p).kind
  IN  IF k.tag = "Ident" THEN instruction_args(toks, next(toks, p).pos, Append(args, k.s))
      ELSE IF k.tag = "IntLit"
      THEN instruction_args(toks, next(toks, p).pos, Append(args, to_string(k.n)))
      ELSE IF k.tag = "StrLit" THEN instruction_args(toks, next(toks, p).pos, Append(args, k.s))
      ELSE IF k.tag = "CharLit" THEN instruction_args(toks, next(toks, p).pos, Append(args, k.s))
      ELSE [args |-> args, pos |-> p]

parse_instruction(toks, p) ==
  LET r == next(toks, p)
  IN  IF r.tok = NoToken THEN NoneAt(r.pos)
      ELSE IF r.tok.kind.tag # "Ident" THEN NoneAt(r.pos)
      ELSE LET a == instruction_args(toks, r.pos, <<>>)
           IN  Some(Instruction(r.tok.kind.s, a.args), a.pos)

RECURSIVE directive_args_with_char(_, _, _)
\* The loop of parse_directive taking a character literal as an argument too.
directive_args_with_char(toks, p, args) ==
  LET k == peek(toks, p).kind
  IN  IF k.tag \in {"Ident", "StrLit", "CharLit"}
      THEN directive_args_with_char(toks, next(toks, p).pos, Append(args, k.s))
      ELSE IF k.tag = "IntLit"
      THEN directive_args_with_char(toks, next(toks, p).pos, Append(args, to_string(k.n)))
      ELSE [args |-> args, pos |-> p]

RECURSIVE directive_args(_, _, _)
\* The while-let loop of parse_directive: [args, pos].
directive_args(toks, p, args) ==
  LET k == peek(toks, p).kind
  IN  IF k.tag = "Ident" \/ k.tag = "StrLit"
      THEN directive_args(toks, next(toks, p).pos, Append(args, k.s))
      ELSE IF k.tag = "IntLit"
      THEN directive_args(toks, next(toks, p).pos, Append(args, to_string(k.n)))
      ELSE [args |-> args, pos |-> p]

parse_directive(toks, p) ==
  LET r == next(toks, p)
  IN  IF r.tok = NoToken THEN NoneAt(r.pos)
      ELSE LET a == directive_args(toks, r.pos, <<>>)
           IN  Some(Directive(trim_start_matches(r.tok.text, "@"), a.args), a.pos)

\* parse_include taking the text between the quotes as the path.
parse_include_unquoted(toks, p) ==
  LET e == expect(toks, p, Unit("Include"))
  IN  IF ~e.ok THEN Panic(e.err, e.pos)
      ELSE LET r == next(toks, e.pos)
           IN  IF r.tok = NoToken THEN NoneAt(r.pos)
               ELSE IF r.tok.kind.tag = "StrLit"
               THEN Some(Include(SubSeq(r.tok.kind.s, 2, Len(r.tok.kind.s) - 1)), r.pos)
               ELSE Panic("Expected string literal after include", r.pos)

parse_include(toks, p) ==
  LET e == expect(toks, p, Unit("Include"))
  IN  IF ~e.ok THEN Panic(e.err, e.pos)
      ELSE LET r == next(toks, e.pos)
           IN  IF r.tok = NoToken THEN NoneAt(r.pos)
               ELSE IF r.tok.kind.tag = "StrLit" THEN Some(Include(r.tok.kind.s), r.pos)
               ELSE Panic("Expected string literal after include", r.pos)

\* parse_var taking the value of whatever token stands in the value position.
parse_var_any_value(toks, p) ==
  LET r1 == next(toks, p)
      r2 == next(toks, r1.pos)
  IN  IF r2.tok = NoToken THEN NoneAt(r2.pos)
      ELSE IF r2.tok.kind.tag # "Ident" THEN Panic("expected identifier", r2.pos)
      ELSE LET e == expect(toks, r2.pos, Unit("Equal"))
           IN  IF ~e.ok THEN Panic(e.err, e.pos)
               ELSE LET r3 == next(toks, e.pos)
                    IN  IF r3.tok = NoToken THEN NoneAt(r3.pos)
                        ELSE Some(VarAssign(r2.tok.kind.s, r3.tok.kind.n), r3.pos)

parse_var(toks, p) ==
  LET r1 == next(toks, p)
      r2 == next(toks, r1.pos)
  IN  IF r2.tok = NoToken THEN NoneAt(r2.pos)
      ELSE IF r2.tok.kind.tag # "Ident" THEN Panic("expected identifier", r2.pos)
      ELSE LET e == expect(toks, r2.pos, Unit("Equal"))
           IN  IF ~e.ok THEN Panic(e.err, e.pos)
               ELSE LET r3 == next(toks, e.pos)
                    IN  IF r3.tok = NoToken THEN NoneAt(r3.pos)
                        ELSE IF r3.tok.kind.tag # "IntLit"
                        THEN Panic("expected integer literal", r3.pos)
                        ELSE Some(VarAssign(r2.tok.kind.s, r3.tok.kind.n), r3.pos)

parse_const(toks, p) ==
  LET r1 == next(toks, p)
      r2 == next(toks, r1.pos)
  IN  IF r2.tok = NoToken THEN NoneAt(r2.pos)
      ELSE IF r2.tok.kind.tag # "Ident" THEN Panic("expected identifier", r2.pos)
      ELSE LET e == expect(toks, r2.pos, Unit("Equal"))
           IN  IF ~e.ok THEN Panic(e.err, e.pos)
               ELSE LET r3 == next(toks, e.pos)
                    IN  IF r3.tok = NoToken THEN NoneAt(r3.pos)
                        ELSE IF r3.tok.kind.tag # "IntLit"
                        THEN Panic("expected integer literal", r3.pos)
                        ELSE Some(ConstAssign(r2.tok.kind.s, r3.tok.kind.n), r3.pos)

(***************************************************************************)
(* Parser: macro and for-loop headers (the code before the body's block)   *)
(***************************************************************************)

\* A header's outcome: "call" (go on to parse_block), "none" or "panic".
Header(out, name, params, lo, hi, p, msg) ==
  [out |-> out, name |-> name, params |-> params, start |-> lo, end |-> hi,
   pos |-> p, err |-> msg]

HeaderNone(p) == Header("none", <<>>, <<>>, 0, 0, p, "")

HeaderPanic(msg, p) == Header("panic", <<>>, <<>>, 0, 0, p, msg)

RECURSIVE macro_params_lenient(_, _, _)
\* The parameter loop passing over every token that is no identifier and no `)`.
macro_params_lenient(toks, p, params) ==
  LET r == next(toks, p)
  IN  IF r.tok = NoToken THEN HeaderNone(r.pos)
      ELSE IF r.tok.kind.tag = "Ident"
      THEN macro_params_lenient(toks, r.pos, Append(params, r.tok.kind.s))
      ELSE IF r.tok.kind.tag = "RightParen" THEN Header("call", <<>>, params, 0, 0, r.pos, "")
      ELSE macro_params_lenient(toks, r.pos, params)

RECURSIVE macro_params(_, _, _)
\* The loop of parse_macro over the parameter list.
macro_params(toks, p, params) ==
  LET r == next(toks, p)
  IN  IF r.tok = NoToken THEN HeaderNone(r.pos)
      ELSE IF r.tok.kind.tag = "Ident"
      THEN macro_params(toks, r.pos, Append(params, r.tok.kind.s))
      ELSE IF r.tok.kind.tag = "RightParen" THEN Header("call", <<>>, params, 0, 0, r.pos, "")
      ELSE IF r.tok.kind.tag = "Comma" THEN macro_params(toks, r.pos, params)
      ELSE HeaderPanic("Unexpected token in macro param list", r.pos)

\* parse_macro up to the call of parse_block.
macro_header(toks, p) ==
  LET e1 == expect(toks, p, Unit("MacroRules"))
  IN  IF ~e1.ok THEN HeaderPanic(e1.err, e1.pos)
      ELSE LET r == next(toks, e1.pos)
           IN  IF r.tok = NoToken THEN HeaderNone(r.pos)
               ELSE IF r.tok.kind.tag # "Ident" THEN HeaderPanic("Expected macro name", r.pos)
               ELSE LET e2 == expect(toks, r.pos, Unit("LeftParen"))
                    IN  IF ~e2.ok THEN HeaderPanic(e2.err, e2.pos)
                        ELSE LET h == macro_params(toks, e2.pos, <<>>)
                             IN  [h EXCEPT !.name = IF h.out = "call" THEN r.tok.kind.s ELSE <<>>]

RECURSIVE expect_all(_, _, _)
\* Consecutive self.stream.expect(kind) calls: the first failure, or the
\* cursor after the last.
expect_all(toks, p, kinds) ==
  IF kinds = <<>> THEN [ok |-> TRUE, err |-> "", pos |-> p]
  ELSE LET e == expect(toks, p, Head(kinds))
       IN  IF e.ok THEN expect_all(toks, e.pos, Tail(kinds)) ELSE e

\* parse_for_loop up to the call of parse_block.
for_header(toks, p) ==
  LET e1 == expect_all(toks, p, <<Unit("ForBang"), Unit("LeftParen"), Unit("Var")>>)
  IN  IF ~e1.ok THEN HeaderPanic(e1.err, e1.pos) ELSE
      LET rv == next(toks, e1.pos)
      IN  IF rv.tok = NoToken THEN HeaderNone(rv.pos) ELSE
          IF rv.tok.kind.tag # "Ident" THEN HeaderPanic("expected loop variable name", rv.pos) ELSE
      LET var == rv.tok.kind.s
          e2 == expect(toks, rv.pos, Unit("Equal"))
      IN  IF ~e2.ok THEN HeaderPanic(e2.err, e2.pos) ELSE
      LET rs == next(toks, e2.pos)
      IN  IF rs.tok = NoToken THEN HeaderNone(rs.pos) ELSE
          IF rs.tok.kind.tag # "IntLit"
          THEN HeaderPanic("expected integer literal in for loop start", rs.pos) ELSE
      LET e3 == expect_all(toks, rs.pos, <<Unit("Semicolon"), Ident(var), Unit("Less")>>)
      IN  IF ~e3.ok THEN HeaderPanic(e3.err, e3.pos) ELSE
      LET re == next(toks, e3.pos)
      IN  IF re.tok = NoToken THEN HeaderNone(re.pos) ELSE
          IF re.tok.kind.tag # "IntLit"
          THEN HeaderPanic("expected integer literal in for loop end", re.pos) ELSE
      LET e4 == expect_all(toks, re.pos,
                           <<Unit("Semicolon"), Ident(var), Unit("PlusPlus"), Unit("RightParen")>>)
      IN  IF ~e4.ok THEN HeaderPanic(e4.err, e4.pos)
          ELSE Header("call", var, <<>>, rs.tok.kind.n, re.tok.kind.n, e4.pos, "")

(***************************************************************************)
(* The parser as a state machine.  stack is the call stack (top = last):   *)
(* one frame per active parse function, with its position pc and its       *)
(* locals.  ret is the Option<Statement> the last returned call produced,  *)
(* ast the stmts vector of Parser::parse.                                  *)
(***************************************************************************)

Frame(fn, pc) == [fn |-> fn, pc |-> pc]

NoRet == [some |-> FALSE, stmt |-> NoStmt]

Top == stack[Len(stack)]

At(fn, pc) ==
  /\ status = "running"
  /\ stack # <<>>
  /\ Top.fn = fn
  /\ Top.pc = pc

Pop(s) == SubSeq(s, 1, Len(s) - 1)

ReplaceTop(s, f) == Append(Pop(s), f)

\* The top function panics: the pass is over, nothing is returned.
Fatal(msg, p) ==
  /\ status' = "panic"
  /\ err' = msg
  /\ pos' = p
  /\ UNCHANGED <<input, tokens, stack, ret, ast, call>>

\* The top function returns r (out = "some" or "none") to its caller.
Return(r) ==
  /\ stack' = Pop(stack)
  /\ ret' = [some |-> r.out = "some", stmt |-> r.stmt]
  /\ pos' = r.pos
  /\ UNCHANGED <<input, tokens, ast, status, err, call>>

\* A function without callees runs in one step.
Finish(r) == IF r.out = "panic" THEN Fatal(r.err, r.pos) ELSE Return(r)

\* The frame of a loop while its body runs.  from is a history field, no
\* local of the code: the cursor at which the iteration began.
IterationFrame(f) == [fn |-> f.fn, pc |-> f.pc, from |-> pos] @@ f

\* Parser::parse: the while condition and the call of parse_statement.
ParseLoop ==
  /\ At("parse", "loop")
  /\ IF eof(tokens, pos)
     THEN /\ status' = "done"
          /\ stack' = <<>>
     ELSE /\ status' = status
          /\ stack' = Append(ReplaceTop(stack, IterationFrame(Frame("parse", "after_stmt"))),
                             Frame("parse_statement", "dispatch"))
  /\ UNCHANGED <<input, tokens, pos, ret, ast, err, call>>

\* Parser::parse putting the cursor one token back where it is to skip one.
ParseAfterStatement_unread ==
  /\ At("parse", "after_stmt")
  /\ IF ret.some
     THEN /\ ast' = Append(ast, ret.stmt)
          /\ pos' = pos
     ELSE /\ ast' = ast
          /\ pos' = IF pos > 0 THEN pos - 1 ELSE pos
  /\ stack' = ReplaceTop(stack, Frame("parse", "loop"))
  /\ ret' = NoRet
  /\ UNCHANGED <<input, tokens, status, err, call>>

\* Parser::parse: push the statement, or skip a token when there is none.
ParseAfterStatement ==
  /\ At("parse", "after_stmt")
  /\ IF ret.some
     THEN /\ ast' = Append(ast, ret.stmt)
          /\ pos' = pos
     ELSE /\ ast' = ast
          /\ pos' = next(tokens, pos).pos
  /\ stack' = ReplaceTop(stack, Frame("parse", "loop"))
  /\ ret' = NoRet
  /\ UNCHANGED <<input, tokens, status, err, call>>

\* The function parse_statement's match selects for the token at the cursor
\* ("" for the default arm).
Dispatch(toks, p) ==
  LET tag == peek(toks, p).kind.tag
  IN  CASE tag = "Var" -> "parse_var"
        [] tag = "Const" -> "parse_const"
        [] tag = "Ident" /\ lookahead_is_label(toks, p) -> "parse_label"
        [] tag = "AtDirective" -> "parse_directive"
        [] tag = "Include" -> "parse_include"
        [] tag = "MacroRules" -> "parse_macro"
        [] tag = "ForBang" -> "parse_for_loop"
        [] tag = "LeftBrace" -> "parse_block"
        [] tag = "Ident" -> "parse_instruction"
        [] OTHER -> ""

\* Parser::parse_statement: every arm returns what the function it calls
\* returns, so the callee's frame takes the place of this one.
ParseStatement ==
  /\ At("parse_statement", "dispatch")
  /\ IF peek(tokens, pos) = NoToken THEN Return(NoneAt(pos))
     ELSE IF Dispatch(tokens, pos) = "" THEN Return(NoneAt(next(tokens, pos).pos))
     ELSE /\ stack' = ReplaceTop(stack, Frame(Dispatch(tokens, pos), "entry"))
          /\ UNCHANGED <<input, tokens, pos, ret, ast, status, err, call>>

ParseVar == At("parse_var", "entry") /\ Finish(parse_var(tokens, pos))

ParseConst == At("parse_const", "entry") /\ Finish(parse_const(tokens, pos))

ParseLabel == At("parse_label", "entry") /\ Finish(parse_label(tokens, pos))

ParseInstruction == At("parse_instruction", "entry") /\ Finish(parse_instruction(tokens, pos))

ParseDirective == At("parse_directive", "entry") /\ Finish(parse_directive(tokens, pos))

ParseInclude == At("parse_include", "entry") /\ Finish(parse_include(tokens, pos))

\* A header ran to its call of parse_block: keep the locals in the frame f.
CallBlock(f, p) ==
  /\ stack' = Append(ReplaceTop(stack, f), Frame("parse_block", "entry"))
  /\ pos' = p
  /\ UNCHANGED <<input, tokens, ret, ast, status, err, call>>

ParseMacro ==
  /\ At("parse_macro", "entry")
  /\ LET h == macro_header(tokens, pos)
     IN  IF h.out = "panic" THEN Fatal(h.err, h.pos)
         ELSE IF h.out = "none" THEN Return(NoneAt(h.pos))
         ELSE CallBlock([fn |-> "parse_macro", pc |-> "after_block",
                         name |-> h.name, params |-> h.params], h.pos)

\* parse_macro after self.parse_block()? returned.
ParseMacroBody ==
  /\ At("parse_macro", "after_block")
  /\ IF ~ret.some THEN Return(NoneAt(pos))
     ELSE IF ret.stmt.type = "Block"
     THEN Return(Some(MacroDef(Top.name, Top.params, ret.stmt.body), pos))
     ELSE Fatal("Expected a block in macro definition", pos)

ParseForLoop ==
  /\ At("parse_for_loop", "entry")
  /\ LET h == for_header(tokens, pos)
     IN  IF h.out = "panic" THEN Fatal(h.err, h.pos)
         ELSE IF h.out = "none" THEN Return(NoneAt(h.pos))
         ELSE CallBlock([fn |-> "parse_for_loop", pc |-> "after_block",
                         var |-> h.name, start |-> h.start, end |-> h.end], h.pos)

\* parse_for_loop building the node with start and end exchanged.
ParseForLoopBody_swapped ==
  /\ At("parse_for_loop", "after_block")
  /\ IF ~ret.some THEN Return(NoneAt(pos))
     ELSE Return(Some(ForLoop(Top.var, Top.end, Top.start, ret.stmt.body), pos))

\* parse_for_loop after self.parse_block()? returned.
ParseForLoopBody ==
  /\ At("parse_for_loop", "after_block")
  /\ IF ~ret.some THEN Return(NoneAt(pos))
     ELSE IF ret.stmt.type = "Block"
     THEN Return(Some(ForLoop(Top.var, Top.start, Top.end, ret.stmt.body), pos))
     ELSE Fatal("Expected a block in for loop", pos)

BlockFrame(pc, body) == [fn |-> "parse_block", pc |-> pc, body |-> body]

\* parse_block: expect `{`, body = Vec::new().
ParseBlock ==
  /\ At("parse_block", "entry")
  /\ LET e == expect(tokens, pos, Unit("LeftBrace"))
     IN  IF ~e.ok THEN Fatal(e.err, e.pos)
         ELSE /\ stack' = ReplaceTop(stack, BlockFrame("loop", <<>>))
              /\ pos' = e.pos
              /\ UNCHANGED <<input, tokens, ret, ast, status, err, call>>

\* parse_block: the while-let condition, the break at `}`, the call of
\* parse_statement.
BlockLoop ==
  /\ At("parse_block", "loop")
  /\ IF peek(tokens, pos) = NoToken \/ peek(tokens, pos).kind.tag = "RightBrace"
     THEN stack' = ReplaceTop(stack, BlockFrame("close", Top.body))
     ELSE stack' = Append(ReplaceTop(stack, IterationFrame(BlockFrame("after_stmt", Top.body))),
                          Frame("parse_statement", "dispatch"))
  /\ UNCHANGED <<input, tokens, pos, ret, ast, status, err, call>>

\* parse_block taking the statements of a nested block into its own body.
BlockAfterStatement_flat ==
  /\ At("parse_block", "after_stmt")
  /\ IF ret.some
     THEN /\ stack' = ReplaceTop(stack, BlockFrame("loop",
                        IF ret.stmt.type = "Block" THEN Top.body \o ret.stmt.body
                        ELSE Append(Top.body, ret.stmt)))
          /\ pos' = pos
     ELSE /\ stack' = ReplaceTop(stack, BlockFrame("loop", Top.body))
          /\ pos' = next(tokens, pos).pos
  /\ ret' = NoRet
  /\ UNCHANGED <<input, tokens, ast, status, err, call>>

\* parse_block: push the statement, or skip a token when there is none.
BlockAfterStatement ==
  /\ At("parse_block", "after_stmt")
  /\ IF ret.some
     THEN /\ stack' = ReplaceTop(stack, BlockFrame("loop", Append(Top.body, ret.stmt)))
          /\ pos' = pos
     ELSE /\ stack' = ReplaceTop(stack, BlockFrame("loop", Top.body))
          /\ pos' = next(tokens, pos).pos
  /\ ret' = NoRet
  /\ UNCHANGED <<input, tokens, ast, status, err, call>>

\* parse_block returning its body without the assertion of the closing brace.
BlockClose_unasserted ==
  /\ At("parse_block", "close")
  /\ Return(Some(Block(Top.body), next(tokens, pos).pos))

\* parse_block: expect `}`, return the block.
BlockClose ==
  /\ At("parse_block", "close")
  /\ LET e == expect(tokens, pos, Unit("RightBrace"))
     IN  IF ~e.ok THEN Fatal(e.err, e.pos)
         ELSE Return(Some(Block(Top.body), e.pos))

(***************************************************************************)
(* Inputs: source texts, built from lexemes                                 *)
(***************************************************************************)

w_var == <<"v", "a", "r">>

w_const == <<"c", "o", "n", "s", "t">>

w_include == <<"i", "n", "c", "l", "u", "d", "e">>

w_macro == <<"m", "a", "c", "r", "o", "_", "r", "u", "l", "e", "s", "!">>

w_for == <<"f", "o", "r", "!">>

w_x == <<"x">>

w_y == <<"y">>

w_i == <<"i">>

w_j == <<"j">>

w_m == <<"m">>

w_a == <<"a">>

w_b == <<"b">>

w_R1 == <<"R", "1">>

w_R2 == <<"R", "2">>

w_nop == <<"n", "o", "p">>

w_label == <<"l", "a", "b", "e", "l">>

w_local == <<"l", "o", "c", "a", "l">>

w_global == <<"g", "l", "o", "b", "a", "l">>

w_eq == <<"=">>

w_plus == <<"+">>

w_lparen == <<"(">>

w_rparen == <<")">>

w_lbrace == <<"{">>

w_rbrace == <<"}">>

w_comma == <<",">>

w_colon == <<":">>

w_dcolon == <<":", ":">>

w_dot == <<".">>

w_semi == <<";">>

w_lt == <<"<">>

w_pp == <<"+", "+">>

w_dollar == <<"$">>

w_0 == <<"0">>

w_4 == <<"4">>

w_5 == <<"5">>

w_20 == <<"2", "0">>

w_007 == <<"0", "0", "7">>

w_hex == <<"0", "x", "F", "F">>

w_hex_upper == <<"0", "X", "F", "F">>

w_bin_upper == <<"0", "B", "1", "0", "1", "1">>

w_oct_upper == <<"0", "O", "7", "7">>

w_bin == <<"0", "b", "1", "0", "1", "1">>

w_oct == <<"0", "o", "7", "7">>

w_str == <<"\"", "f", "\"">>

w_str_esc == <<"\"", "a", "\\", "n", "\"">>

w_chr == <<"'", "A", "'">>

w_dir == <<"@", "d">>

RECURSIVE Cat(_)
\* The lexemes of ws written without separation.
Cat(ws) == IF ws = <<>> THEN <<>> ELSE Head(ws) \o Cat(Tail(ws))

RECURSIVE Join(_)
\* The lexemes of ws separated by one space.
Join(ws) ==
  IF ws = <<>> THEN <<>>
  ELSE IF Len(ws) = 1 THEN Head(ws)
  ELSE Head(ws) \o <<" ">> \o Join(Tail(ws))

\* Bounds of the generated inputs.
MaxWords == 3

MaxBody == 2

\* Lexemes of the exhaustive short inputs.
Alphabet == {w_plus, w_var, w_x, w_eq, w_5, w_colon, w_dot, w_lbrace, w_rbrace, w_dcolon}

SeqsUpTo(S, n) == UNION {[1..k -> S] : k \in 0..n}

ShortInputs == {Join(s) : s \in SeqsUpTo(Alphabet, MaxWords)}

T_var == <<w_var, w_x, w_eq, w_5>>

T_const == <<w_const, w_y, w_eq, w_20>>

T_include == <<w_include, w_str>>

T_macro_head == <<w_macro, w_m, w_lparen, w_a, w_comma, w_b, w_rparen>>

T_for_head ==
  <<w_for, w_lparen, w_var, w_i, w_eq, w_0, w_semi, w_i, w_lt, w_4, w_semi,
    w_i, w_pp, w_rparen>>

T_macro == T_macro_head \o <<w_lbrace, w_nop, w_rbrace>>

T_for == T_for_head \o <<w_lbrace, w_nop, w_rbrace>>

T_directive == <<w_dir, w_x, w_str, w_5, w_chr>>

Templates == {T_var, T_const, T_include, T_macro, T_for, T_directive}

\* A short run of lexemes inside a construct: [pre, post] around it.
Contexts ==
  { [pre |-> <<>>, post |-> T_var],
    [pre |-> T_for_head \o <<w_lbrace>>, post |-> <<w_rbrace>>],
    [pre |-> T_macro_head \o <<w_lbrace>>, post |-> <<w_rbrace>>],
    [pre |-> <<w_lbrace>>, post |-> <<w_rbrace, w_x>>] }

ContextInputs ==
  {Join(c.pre \o s \o c.post) : c \in Contexts, s \in SeqsUpTo(Alphabet, MaxBody)}

\* Every template cut short after k lexemes.
PrefixInputs == UNION {{Join(SubSeq(t, 1, k)) : k \in 0..Len(t)} : t \in Templates}

\* Lexemes put in the place of one lexeme of a template.
SubstWords == {w_j, w_plus, w_5, w_str, w_rbrace, w_hex}

SubstInputs ==
  UNION {{Join([t EXCEPT ![k] = w]) : k \in 1..Len(t), w \in SubstWords} : t \in Templates}

\* for!(var v = s; u1 < e; u2++) as lexemes.
ForHead(v, s, u1, e, u2) ==
  <<w_for, w_lparen, w_var, v, w_eq, s, w_semi, u1, w_lt, e, w_semi, u2, w_pp, w_rparen>>

LoopVars == {w_i, w_j, w_x}

\* Decimal literals with their values.
Nums == {[w |-> w_0, n |-> 0], [w |-> w_4, n |-> 4], [w |-> w_5, n |-> 5], [w |-> w_20, n |-> 20]}

\* Loop bodies with the statements they are.
Bodies ==
  { [w |-> <<>>, stmts |-> <<>>],
    [w |-> <<w_nop>>, stmts |-> <<Instruction(w_nop, <<>>)>>],
    [w |-> T_var, stmts |-> <<VarAssign(w_x, 5)>>],
    [w |-> <<w_label, w_colon, w_nop, w_R1, w_lbrace, w_rbrace>>,
     stmts |-> <<Label(w_label), Instruction(w_nop, <<w_R1>>), Block(<<>>)>>] }

\* Well-formed loops, alone or followed by an instruction.
ForInputs ==
  {Join(ForHead(v, s.w, v, e.w, v) \o <<w_lbrace>> \o b.w \o <<w_rbrace>> \o t) :
     v \in LoopVars, s \in Nums, e \in Nums, b \in Bodies, t \in {<<>>, <<w_nop>>}}

\* Loops whose condition or increment names another identifier than the initializer.
MismatchInputs ==
  {Join(ForHead(v, w_0, u1, w_4, u2) \o <<w_lbrace, w_nop, w_rbrace>>) :
     v \in LoopVars, u1 \in LoopVars, u2 \in LoopVars} \
  {Join(ForHead(v, w_0, v, w_4, v) \o <<w_lbrace, w_nop, w_rbrace>>) : v \in LoopVars}

\* The texts the specification and src/main.rs give as examples.
E_stray_plus == Join(<<w_plus>> \o T_var)

E_stray_dollar == Join(<<w_dollar>> \o T_var)

E_block_plus == Join(<<w_lbrace, w_plus, w_rbrace>>)

E_for_body ==
  Cat(<<w_for, w_lparen>>) \o Join(<<w_var, w_i, w_eq>>) \o <<" ">> \o Cat(<<w_0, w_semi>>)
  \o <<" ">> \o Join(<<w_i, w_lt>>) \o <<" ">> \o Cat(<<w_4, w_semi>>) \o <<" ">>
  \o Cat(<<w_i, w_pp, w_rparen>>) \o <<"\n">>
  \o Join(<<w_lbrace, w_R1, w_eq, w_R1, w_plus, w_i, w_rbrace>>)

E_label == Cat(<<w_label, w_colon>>)

E_label_spaced == Join(<<w_label, w_colon>>)

E_local == Cat(<<w_dot, w_local, w_colon>>)

E_local_spaced == Join(<<w_dot, w_local, w_colon>>)

E_global == Cat(<<w_dcolon, w_global, w_colon>>)

E_two_idents == Join(<<w_R1, w_R2>>)

E_var_hex == Join(<<w_var, w_x, w_eq, w_hex>>)

E_const_oct == Join(<<w_const, w_y, w_eq, w_oct>>)

E_instr_bin == Join(<<w_nop, w_bin>>)

E_dir_bin == Join(<<w_dir, w_bin>>)

E_instr_args == Join(<<w_nop, w_R1, w_R1, w_007, w_str, w_chr, w_plus, w_y>>)

E_upper_prefixes == {w_hex_upper, w_bin_upper, w_oct_upper}

E_nop_label == Join(<<w_nop, w_label, w_colon>>)

Examples ==
  {E_stray_plus, E_stray_dollar, E_block_plus, E_for_body, E_label, E_label_spaced,
   E_local, E_local_spaced, E_global, E_two_idents, E_var_hex, E_const_oct,
   E_instr_bin, E_dir_bin, E_instr_args, E_nop_label} \cup E_upper_prefixes

\* Lexemes for the name position of var and const: an identifier, then others.
NameWords == {w_x, w_5, w_str, w_var, w_eq}

\* Lexemes for the position of `=`.
AssignWords == {w_eq, w_colon, w_x, w_5}

\* Lexemes for the value position that are no decimal literal.
NonIntWords == {w_y, w_str, w_chr, w_hex, w_plus}

\* `var`/`const`, name, `=`, value, alone or followed by an instruction:
\* the text, whether it is well formed, the node it is then, and otherwise
\* the cursor after the offending token.
VarCases ==
  {[text |-> Join(<<k.w, nm, eq, v.w>> \o t),
    ok |-> nm = w_x /\ eq = w_eq /\ v.int,
    node |-> [type |-> k.type, name |-> nm, expr |-> v.n],
    after |-> IF t = <<>> THEN <<>> ELSE <<Instruction(w_nop, <<>>)>>,
    bad |-> IF nm # w_x THEN 2 ELSE IF eq # w_eq THEN 3 ELSE 4] :
     k \in {[w |-> w_var, type |-> "VarAssign"], [w |-> w_const, type |-> "ConstAssign"]},
     nm \in NameWords,
     eq \in AssignWords,
     v \in {[w |-> n.w, n |-> n.n, int |-> TRUE] : n \in Nums}
           \cup {[w |-> w, n |-> 0, int |-> FALSE] : w \in NonIntWords},
     t \in {<<>>, <<w_nop>>}}

VarInputs == {c.text : c \in VarCases}

\* Argument lexemes with the argument string each one becomes.
ArgWords ==
  { [w |-> w_x, arg |-> w_x],
    [w |-> w_20, arg |-> w_20],
    [w |-> w_007, arg |-> <<"7">>],
    [w |-> w_str, arg |-> w_str],
    [w |-> w_chr, arg |-> <<"A">>] }

\* What follows an argument run: nothing, or a lexeme of another kind.
StopWords == {<<>>, <<w_plus>>, <<w_hex>>, <<w_colon>>, <<w_rbrace>>, <<w_dir>>}

\* A mnemonic, a run of arguments, and what stops the run: the text, the
\* node, the cursor after the run.  (A colon right after the mnemonic makes
\* it a label.)
InstrCases ==
  {[text |-> Join(<<w_nop>> \o [j \in 1..Len(r.a) |-> r.a[j].w] \o r.st),
    node |-> Instruction(w_nop, [j \in 1..Len(r.a) |-> r.a[j].arg]),
    end |-> 1 + Len(r.a),
    more |-> r.st # <<>>] :
     r \in {q \in [a : SeqsUpTo(ArgWords, MaxBody), st : StopWords] :
              q.a = <<>> => q.st # <<w_colon>>}}

InstrInputs == {c.text : c \in InstrCases}

\* Lexemes for the name position of a macro: an identifier, then others.
MacroNameWords == {w_m, w_5, w_lbrace}

\* Lexemes inside a parameter list: parameters, the comma, and one that is neither.
ListWords == {w_a, w_b, w_comma, w_5}

\* Index of the first lexeme of list that is no parameter and no comma (0: none).
FirstBad(list) ==
  LET bad == {k \in 1..Len(list) : list[k] \notin {w_a, w_b, w_comma}}
  IN  IF bad = {} THEN 0 ELSE CHOOSE k \in bad : \A j \in bad : k <= j

\* macro_rules! name ( list ) { body }: the text, whether it is well formed,
\* the node it is then, and otherwise the cursor after the offending token.
MacroCases ==
  {[text |-> Join(<<w_macro, nm, w_lparen>> \o list \o <<w_rparen, w_lbrace>> \o b.w
                  \o <<w_rbrace>>),
    ok |-> nm = w_m /\ FirstBad(list) = 0,
    node |-> MacroDef(nm, SelectSeq(list, LAMBDA w : w # w_comma), b.stmts),
    bad |-> IF nm # w_m THEN 2 ELSE 3 + FirstBad(list)] :
     nm \in MacroNameWords,
     list \in SeqsUpTo(ListWords, MaxWords),
     b \in {c \in Bodies : c.w = <<>> \/ Len(c.stmts) = 3}}

MacroInputs == {c.text : c \in MacroCases}

\* A directive, a run of arguments, and what stops the run: the text, the
\* node, the cursor after the run.
DirCases ==
  {[text |-> Join(<<w_dir>> \o [j \in 1..Len(a) |-> a[j].w] \o st),
    node |-> Directive(<<"d">>, [j \in 1..Len(a) |-> a[j].arg]),
    end |-> 1 + Len(a),
    more |-> st # <<>>] :
     a \in SeqsUpTo({r \in ArgWords : r.w # w_chr}, MaxBody),
     st \in StopWords \cup {<<w_chr>>}}

DirInputs == {c.text : c \in DirCases}

\* Lexemes for the position after `include` that are no string literal.
NonStringWords == {w_x, w_5, w_chr, w_hex, w_lbrace, w_include, w_dir}

\* `include` and one more lexeme, alone or followed by an instruction.
IncludeCases ==
  {[text |-> Join(<<w_include, w>> \o t),
    ok |-> w \notin NonStringWords,
    node |-> Include(w),
    after |-> IF t = <<>> THEN <<>> ELSE <<Instruction(w_nop, <<>>)>>] :
     w \in {w_str, w_str_esc} \cup NonStringWords, t \in {<<>>, <<w_nop>>}}

IncludeInputs == {c.text : c \in IncludeCases}

\* Lexemes with the statements they are: w, stmts.
Piece(w, stmts) == [w |-> w, stmts |-> stmts]

\* The block around the piece c.
Braced(c) == Piece(<<w_lbrace>> \o c.w \o <<w_rbrace>>, <<Block(c.stmts)>>)

\* The piece a followed by the piece b.
Then(a, b) == Piece(a.w \o b.w, a.stmts \o b.stmts)

\* Runs of statements without a block.
Flat ==
  {Piece(<<>>, <<>>), Piece(<<w_nop>>, <<Instruction(w_nop, <<>>)>>),
   Piece(T_var, <<VarAssign(w_x, 5)>>)}

\* A block between statements; two blocks side by side.
Nested1 ==
  {Then(Then(a, Braced(b)), c) : a \in Flat, b \in Flat, c \in Flat}
  \cup {Then(Braced(a), Braced(b)) : a \in Flat, b \in Flat}

\* A block holding a block, between statements.
Nested2 ==
  {Then(Then(a, Braced(m)), c) :
     a \in {f \in Flat : Len(f.w) <= 1}, m \in Nested1, c \in {f \in Flat : Len(f.w) <= 1}}

\* Balanced texts: a block, a loop body and a macro body around such a piece,
\* each with the one node it is.
NestCases ==
  {[text |-> Join(Braced(c).w), node |-> Block(c.stmts)] : c \in Flat \cup Nested1 \cup Nested2}
  \cup {[text |-> Join(T_for_head \o Braced(c).w), node |-> ForLoop(w_i, 0, 4, c.stmts)] :
          c \in Flat \cup Nested1}
  \cup {[text |-> Join(T_macro_head \o Braced(c).w),
          node |-> MacroDef(w_m, <<w_a, w_b>>, c.stmts)] : c \in Flat \cup Nested1}

NestInputs == {c.text : c \in NestCases}

\* A mnemonic, arguments, then an identifier and a colon: the text and the
\* one instruction it is.
LabelArgCases ==
  {[text |-> Join(<<w_nop>> \o [j \in 1..Len(a) |-> a[j].w] \o <<w_label, w_colon>>),
    node |-> Instruction(w_nop, [j \in 1..Len(a) |-> a[j].arg] \o <<w_label>>)] :
     a \in SeqsUpTo(ArgWords, MaxBody)}

\* A complete statement, then an identifier and a colon: the text and the
\* statements it is.
LabelAfterCases ==
  {[text |-> Join(T_var \o <<w_label, w_colon>>),
    stmts |-> <<VarAssign(w_x, 5), Label(w_label)>>],
   [text |-> Join(T_include \o <<w_label, w_colon>>),
    stmts |-> <<Include(w_str), Label(w_label)>>],
   [text |-> Join(<<w_x, w_colon, w_label, w_colon, w_nop>>),
    stmts |-> <<Label(w_x), Label(w_label), Instruction(w_nop, <<>>)>>],
   [text |-> Join(<<w_lbrace, w_rbrace, w_label, w_colon>>),
    stmts |-> <<Block(<<>>), Label(w_label)>>]}

LabelInputs == {c.text : c \in LabelArgCases} \cup {c.text : c \in LabelAfterCases}

Inputs ==
  ShortInputs \cup ContextInputs \cup PrefixInputs \cup SubstInputs \cup ForInputs
  \cup MismatchInputs \cup Examples \cup VarInputs \cup InstrInputs
  \cup MacroInputs \cup DirInputs \cup IncludeInputs \cup NestInputs
  \cup LabelInputs

(***************************************************************************)
(* Specification of a parse: Parser::new(input), then Parser::parse        *)
(***************************************************************************)

NoCall == [op |-> "none", from |-> 0, tok |-> NoToken, expected |-> Unit("None"), ok |-> TRUE]

Init ==
  /\ input \in Inputs
  /\ \E lexed \in {Lex(input)} :
       /\ tokens = lexed.toks
       /\ status = IF lexed.panic THEN "panic" ELSE "running"
       /\ err = IF lexed.panic THEN "unknown escape" ELSE ""
  /\ pos = 0
  /\ stack = <<Frame("parse", "loop")>>
  /\ ret = NoRet
  /\ ast = <<>>
  /\ call = NoCall

Next ==
  \/ ParseLoop
  \/ ParseAfterStatement
  \/ ParseStatement
  \/ ParseVar
  \/ ParseConst
  \/ ParseLabel
  \/ ParseInstruction
  \/ ParseDirective
  \/ ParseInclude
  \/ ParseMacro
  \/ ParseMacroBody
  \/ ParseForLoop
  \/ ParseForLoopBody
  \/ ParseBlock
  \/ BlockLoop
  \/ BlockAfterStatement
  \/ BlockClose

Spec == Init /\ [][Next]_vars

(***************************************************************************)
(* Specification of the TokenStream alone: any sequence of calls of peek,  *)
(* next, expect and eof on the stream of an input.  call is the last call: *)
(* its name, the cursor before it, the token it returned (peek, next), the *)
(* kind it was given (expect) and its boolean result (eof; for expect,     *)
(* whether it returned instead of panicking).                              *)
(***************************************************************************)

MaxStream == 2

StreamInputs == {Join(s) : s \in SeqsUpTo(Alphabet, MaxStream)}

ExpectKinds ==
  {Unit("Colon"), Unit("LeftBrace"), Unit("Var"), Ident(w_x), Ident(w_i), IntLit(5), IntLit(4)}

Called(op, tok, expected, ok) ==
  [op |-> op, from |-> pos, tok |-> tok, expected |-> expected, ok |-> ok]

InitStream ==
  /\ input \in StreamInputs
  /\ tokens = Lex(input).toks
  /\ pos = 0
  /\ stack = <<>>
  /\ ret = NoRet
  /\ ast = <<>>
  /\ status = "running"
  /\ err = ""
  /\ call = NoCall

StreamPeek ==
  /\ status = "running"
  /\ call' = Called("peek", peek(tokens, pos), Unit("None"), TRUE)
  /\ UNCHANGED <<input, tokens, pos, stack, ret, ast, status, err>>

StreamNext ==
  /\ status = "running"
  /\ call' = Called("next", next(tokens, pos).tok, Unit("None"), TRUE)
  /\ pos' = next(tokens, pos).pos
  /\ UNCHANGED <<input, tokens, stack, ret, ast, status, err>>

StreamExpect ==
  /\ status = "running"
  /\ \E expected \in ExpectKinds :
       LET e == expect(tokens, pos, expected)
       IN  /\ call' = Called("expect", NoToken, expected, e.ok)
           /\ pos' = e.pos
           /\ status' = IF e.ok THEN "running" ELSE "panic"
           /\ err' = e.err
  /\ UNCHANGED <<input, tokens, stack, ret, ast>>

StreamEof ==
  /\ status = "running"
  /\ call' = Called("eof", NoToken, Unit("None"), eof(tokens, pos))
  /\ UNCHANGED <<input, tokens, pos, stack, ret, ast, status, err>>

NextStream ==
  \/ StreamPeek
  \/ StreamNext
  \/ StreamExpect
  \/ StreamEof

SpecStream == InitStream /\ [][NextStream]_vars

(***************************************************************************)
(* Properties                                                              *)
(***************************************************************************)

\* Lexemes whose token starts no statement.
NonStatementWords == {w_plus, w_eq, w_5, w_colon, w_dot, w_rbrace, w_dcolon}

Done == status = "done"

Panicked == status = "panic"

\* C1: at the top level a token that starts no statement is discarded alone
\* and dispatch resumes at the next token: a stray non-statement token before
\* `var x = 5` (also the `$` the lexer drops) leaves exactly VarAssign{x, 5}.
C1_TopLevelSingleSkip ==
  \A w \in NonStatementWords \cup {w_dollar} :
    input = Join(<<w>> \o T_var)
      => /\ ~Panicked
         /\ Done => ast = <<VarAssign(w_x, 5)>>

\* C2: inside a block a token that starts no statement is discarded alone,
\* never together with the closing brace: `{ w }` is Block([]) for every
\* such w, and the body of the loop over `R1 = R1 + i` keeps R1, R1 and i.
C2_BlockSkipKeepsBrace ==
  /\ \A w \in NonStatementWords \ {w_rbrace} :
       input = Join(<<w_lbrace, w, w_rbrace>>)
         => /\ ~Panicked
            /\ Done => ast = <<Block(<<>>)>>
  /\ input = E_for_body
       => /\ ~Panicked
          /\ Done => ast = <<ForLoop(w_i, 0, 4,
                                     <<Instruction(w_R1, <<>>), Instruction(w_R1, <<>>),
                                       Instruction(w_i, <<>>)>>)>>

\* C3: each of the label forms `label:`, `.local:` and `::global:`, parsed
\* alone, yields exactly one Label with the bare name.
C3_LabelForms ==
  /\ input \in {E_label, E_label_spaced, E_local, E_local_spaced, E_global} => ~Panicked
  /\ (input \in {E_label, E_label_spaced} /\ Done) => ast = <<Label(w_label)>>
  /\ (input \in {E_local, E_local_spaced} /\ Done) => ast = <<Label(w_local)>>
  /\ (input = E_global /\ Done) => ast = <<Label(w_global)>>

\* C4: with an identifier at the cursor, statement dispatch (the label
\* lookahead) leaves the cursor and the tokens as they are and selects the
\* label parse exactly when the next token is `:`, otherwise the instruction
\* parse, which returns an Instruction named by that identifier; two
\* identifiers without a colon are one Instruction{first, [second]}.
C4_LookaheadPure ==
  /\ [][(At("parse_statement", "dispatch") /\ peek(tokens, pos).kind.tag = "Ident")
          => /\ pos' = pos
             /\ tokens' = tokens
             /\ status' = "running"
             /\ stack'[Len(stack')].fn =
                  IF pos + 2 <= Len(tokens) /\ tokens[pos + 2].kind.tag = "Colon"
                  THEN "parse_label" ELSE "parse_instruction"]_vars
  /\ [][At("parse_instruction", "entry")
          => /\ ret'.some
             /\ ret'.stmt.type = "Instruction"
             /\ ret'.stmt.name = tokens[pos + 1].kind.s
             /\ pos' > pos]_vars
  /\ [](input = E_two_idents => ~Panicked /\ (Done => ast = <<Instruction(w_R1, <<w_R2>>)>>))
  /\ [](input = Join(<<w_x, w_x>>) => ~Panicked /\ (Done => ast = <<Instruction(w_x, <<w_x>>)>>))

C4_Witness == input = E_two_idents /\ Done /\ ast = <<Instruction(w_R1, <<w_R2>>)>>

\* The constructs with mandatory tokens after their keyword, cut short
\* after at least the keyword and before their last token.
CommittedPrefixInputs ==
  UNION {{Join(SubSeq(t, 1, k)) : k \in 1..(Len(t) - 1)} :
           t \in {T_var, T_const, T_include, T_macro, T_for}}

\* C5: an input that ends inside a committed construct is fatal: parse never
\* returns normally on a proper prefix of var, const, include, macro_rules!
\* or for!.
C5_TruncatedIsFatal == input \in CommittedPrefixInputs => ~Done

\* C6: a loop header whose condition or increment names another identifier
\* than its initializer panics in expect ("Expected .. but found ..");
\* no ForLoop node is produced and nothing is returned.
C6_MismatchFatal ==
  input \in MismatchInputs
    => /\ ~Done
       /\ ast = <<>>
       /\ ret = NoRet
       /\ Panicked => err = "Expected but found" /\ pos \in {8, 12}

C6_Witness == input \in MismatchInputs /\ Panicked /\ Top.fn = "parse_for_loop"

\* The well-formed loops with the node each one is.
ForCases ==
  {[text |-> Join(ForHead(v, s.w, v, e.w, v) \o <<w_lbrace>> \o b.w \o <<w_rbrace>> \o t),
    node |-> ForLoop(v, s.n, e.n, b.stmts),
    after |-> IF t = <<>> THEN <<>> ELSE <<Instruction(w_nop, <<>>)>>,
    close |-> 14 + Len(b.w) + 2] :
     v \in LoopVars, s \in Nums, e \in Nums, b \in Bodies, t \in {<<>>, <<w_nop>>}}

\* C7: a well-formed loop for!(var V = S; V < E; V++) { body } is exactly one
\* ForLoop{V, S, E, body} with the body's statements once, whatever S and E
\* are, returned with the cursor just after the closing brace.
C7_ForLoopNode ==
  \A c \in ForCases :
    input = c.text
      => /\ ~Panicked
         /\ (ret.some /\ ret.stmt.type = "ForLoop")
              => /\ ret.stmt = c.node
                 /\ pos = c.close
                 /\ tokens[pos].kind.tag = "RightBrace"
         /\ Done => ast = <<c.node>> \o c.after

C7_Witness ==
  /\ input \in {c.text : c \in ForCases}
  /\ Done
  /\ ast[1].type = "ForLoop"
  /\ ast[1].start = 4
  /\ ast[1].end = 0
  /\ Len(ast[1].body) = 3

\* C8: hexadecimal, binary and octal literals are integer literals with
\* their value wherever the parser takes one.
C8_RadixLiterals ==
  /\ input \in {E_var_hex, E_const_oct, E_instr_bin, E_dir_bin} => ~Panicked
  /\ (input = E_var_hex /\ Done) => ast = <<VarAssign(w_x, 255)>>
  /\ (input = E_const_oct /\ Done) => ast = <<ConstAssign(w_y, 63)>>
  /\ (input = E_instr_bin /\ Done) => ast = <<Instruction(w_nop, <<<<"1", "1">>>>)>>
  /\ (input = E_dir_bin /\ Done) => ast = <<Directive(<<"d">>, <<<<"1", "1">>>>)>>

\* Equality of token kinds: the tag and the data.
SameKind(a, b) == a.tag = b.tag /\ a.s = b.s /\ a.n = b.n

\* The cursor contract of peek, next and eof, and the bounds of the cursor.
CursorContract ==
  /\ 0 <= pos
  /\ pos <= Len(tokens)
  /\ call.op = "peek"
       => /\ pos = call.from
          /\ call.tok = IF call.from < Len(tokens) THEN tokens[call.from + 1] ELSE NoToken
  /\ call.op = "next"
       => /\ status = "running"
          /\ IF call.from < Len(tokens)
             THEN pos = call.from + 1 /\ call.tok = tokens[call.from + 1]
             ELSE pos = call.from /\ call.tok = NoToken
  /\ call.op = "eof"
       => /\ pos = call.from
          /\ call.ok <=> (pos = Len(tokens))

\* C9 as stated: expect advances the cursor by one and fails exactly when
\* the kind observed differs from the kind expected.
C9_CursorContractAsStated ==
  /\ CursorContract
  /\ call.op = "expect"
       => /\ pos = call.from + 1
          /\ Panicked <=> ~SameKind(tokens[call.from + 1].kind, call.expected)

\* C9, amended: 0 <= pos <= len; peek leaves pos; next advances by one
\* before the end and returns nothing, leaving pos, at the end; eof is
\* pos = len; expect before the end advances by one and fails exactly when
\* the kind observed (tag and data) differs from the kind expected, and at
\* the end it fails and leaves pos.
C9_CursorContract ==
  /\ CursorContract
  /\ call.op = "expect"
       => IF call.from < Len(tokens)
          THEN /\ pos = call.from + 1
               /\ Panicked <=> ~SameKind(tokens[call.from + 1].kind, call.expected)
          ELSE /\ pos = call.from
               /\ Panicked

C9_Witness ==
  /\ call.op = "expect"
  /\ call.from < Len(tokens)
  /\ Panicked
  /\ tokens[call.from + 1].kind.tag = call.expected.tag

BodyTypes == {"Block", "MacroDef", "ForLoop"}

RECURSIVE CountBodies(_)
\* The Block, MacroDef and ForLoop nodes of a statement sequence, nested ones included.
CountBodies(stmts) ==
  IF stmts = <<>> THEN 0
  ELSE (IF Head(stmts).type \in BodyTypes THEN 1 + CountBodies(Head(stmts).body) ELSE 0)
       + CountBodies(Tail(stmts))

RECURSIVE FrameBodies(_)
\* The statements held in the body vectors of the open blocks.
FrameBodies(s) ==
  IF s = <<>> THEN <<>>
  ELSE (IF Head(s).fn = "parse_block" /\ Head(s).pc # "entry" THEN Head(s).body ELSE <<>>)
       \o FrameBodies(Tail(s))

\* Every statement built so far.
Emitted == ast \o FrameBodies(stack) \o (IF ret.some THEN <<ret.stmt>> ELSE <<>>)

\* The tokens of kind tag among the first p tokens.
CountTag(toks, p, tag) == Cardinality({k \in 1..p : toks[k].kind.tag = tag})

\* C10: a Block, MacroDef or ForLoop node exists only once the brace closing
\* its body is consumed: it is returned with the cursor just after a `}`,
\* there are never more such nodes than closing braces consumed, and a block
\* that is open when the tokens run out never returns (the pass panics).
C10_BodiesClosed ==
  /\ [](/\ (ret.some /\ ret.stmt.type \in BodyTypes)
             => pos > 0 /\ tokens[pos].kind.tag = "RightBrace"
        /\ CountBodies(Emitted) <= CountTag(tokens, pos, "RightBrace"))
  /\ [][(status = "running" /\ stack # <<>> /\ Top.fn = "parse_block" /\ eof(tokens, pos))
          => \/ status' = "panic" /\ err' = "Unexpected EOF"
             \/ /\ Len(stack') = Len(stack)
                /\ stack'[Len(stack')].fn = "parse_block"
                /\ ret' = NoRet]_vars

C10_Witness ==
  /\ Panicked
  /\ err = "Unexpected EOF"
  /\ Top.fn = "parse_block"
  /\ Top.pc = "close"
  /\ Top.body # <<>>
  /\ \E k \in 1..Len(stack) : stack[k].fn = "parse_for_loop"

\* The cases of a family that are about the input (texts: the family's texts).
CasesOf(cases, texts) == IF input \in texts THEN {d \in cases : d.text = input} ELSE {}

\* The four tokens that end at the cursor are keyword, name, `=` and decimal value.
AssignTokens(keyword, stmt) ==
  /\ pos >= 4
  /\ tokens[pos - 3].kind = Unit(keyword)
  /\ tokens[pos - 2].kind = Ident(stmt.name)
  /\ tokens[pos - 1].kind = Unit("Equal")
  /\ tokens[pos].kind = IntLit(stmt.expr)

\* C11: `var` (`const`), identifier, `=`, integer literal is VarAssign
\* (ConstAssign) with that name and value, returned with exactly those four
\* tokens consumed; another token than an identifier in the name position,
\* than `=` after the name, or than an integer literal in the value position
\* (identifier, string, character literal) is fatal at that token, and no
\* node is produced.
C11_VarConstParse ==
  /\ (ret.some /\ ret.stmt.type = "VarAssign") => AssignTokens("Var", ret.stmt)
  /\ (ret.some /\ ret.stmt.type = "ConstAssign") => AssignTokens("Const", ret.stmt)
  /\ \A c \in CasesOf(VarCases, VarInputs) :
       input = c.text
         => IF c.ok
            THEN /\ ~Panicked
                 /\ (ret.some /\ ret.stmt.type = c.node.type) => ret.stmt = c.node /\ pos = 4
                 /\ Done => ast = <<c.node>> \o c.after
            ELSE /\ ~Done
                 /\ ast = <<>>
                 /\ ~ret.some
                 /\ Panicked
                      => /\ pos = c.bad
                         /\ Top.fn \in {"parse_var", "parse_const"}
                         /\ err = CASE c.bad = 2 -> "expected identifier"
                                    [] c.bad = 3 -> "Expected but found"
                                    [] OTHER -> "expected integer literal"

C11_Witness ==
  /\ input = Join(<<w_const, w_x, w_eq, w_chr, w_nop>>)
  /\ Panicked
  /\ err = "expected integer literal"
  /\ Top.fn = "parse_const"
  /\ pos = 4
  /\ ast = <<>>

\* The kinds of token parse_instruction takes as arguments.
InstructionArgTags == {"Ident", "IntLit", "StrLit", "CharLit"}

\* arg is the decimal numeral of n: digits without a leading zero whose value is n.
IsDecimalOf(arg, n) ==
  /\ arg # <<>>
  /\ \A j \in 1..Len(arg) : arg[j] \in Digit
  /\ Len(arg) > 1 => arg[1] # "0"
  /\ FromStrRadix(arg, 10) = n

\* arg is what an argument token gives: an identifier's or a string
\* literal's text, an integer's decimal numeral, a character literal's character.
IsArgOf(arg, tok) ==
  CASE tok.kind.tag \in {"Ident", "StrLit"} -> arg = tok.text
    [] tok.kind.tag = "IntLit" -> IsDecimalOf(arg, tok.kind.n)
    [] tok.kind.tag = "CharLit" -> arg = tok.kind.s /\ Len(arg) = 1
    [] OTHER -> FALSE

\* The node stmt, just returned, is the mnemonic followed by a maximal run of
\* tokens of the kinds tags, one argument per token, ending at the cursor.
IsRunBeforeCursor(stmt, tags) ==
  LET k == Len(stmt.args)
  IN  /\ pos >= k + 1
      /\ \A j \in 1..k :
           /\ tokens[pos - k + j].kind.tag \in tags
           /\ IsArgOf(stmt.args[j], tokens[pos - k + j])
      /\ pos < Len(tokens) => tokens[pos + 1].kind.tag \notin tags

C13_MacroParse ==
  \A c \in CasesOf(MacroCases, MacroInputs) :
    IF c.ok
    THEN /\ ~Panicked
         /\ (ret.some /\ ret.stmt.type = "MacroDef")
              => /\ ret.stmt = c.node
                 /\ pos = Len(tokens)
         /\ Done => ast = <<c.node>>
    ELSE /\ ~Done
         /\ ast = <<>>
         /\ ~ret.some
         /\ Panicked
              => /\ pos = c.bad
                 /\ Top.fn = "parse_macro"
                 /\ err = IF c.bad = 2 THEN "Expected macro name"
                          ELSE "Unexpected token in macro param list"

C13_Witness ==
  /\ input \in MacroInputs
  /\ Done
  /\ Len(ast) = 1
  /\ ast[1].type = "MacroDef"
  /\ ast[1].params = <<w_b, w_a, w_b>>
  /\ Len(ast[1].body) = 3

\* The kinds of token parse_directive takes as arguments.
DirectiveArgTags == {"Ident", "StrLit", "IntLit"}

\* The name and the argument run of a Directive, as it is returned: the
\* directive token's text without its `@`, then the maximal run of
\* identifier, string and integer tokens, one argument per token in source
\* order, ending at the cursor.
DirectiveRun ==
  /\ (ret.some /\ ret.stmt.type = "Directive")
       => /\ IsRunBeforeCursor(ret.stmt, DirectiveArgTags)
          /\ tokens[pos - Len(ret.stmt.args)].kind.tag = "AtDirective"
          /\ <<"@">> \o ret.stmt.name = tokens[pos - Len(ret.stmt.args)].text
  /\ \A c \in CasesOf(DirCases, DirInputs) :
       /\ ~Panicked
       /\ (ret.some /\ ast = <<>>)
            => /\ ret.stmt = c.node
               /\ pos = c.end
               /\ c.more <=> pos < Len(tokens)
       /\ Done => ast # <<>> /\ ast[1] = c.node

\* The argument loop of an instruction, started at cursor p, takes nothing.
InstructionStopsAt(p) == instruction_args(tokens, p, <<>>).pos = p

\* The argument loop of a directive, started at cursor p, takes nothing.
DirectiveStopsAt(p) == directive_args(tokens, p, <<>>).pos = p

\* C14 as stated: the name and the run as above, and the directive's run
\* stops at exactly the tokens at which an instruction's run would stop.
C14_DirectiveParseAsStated ==
  /\ DirectiveRun
  /\ (ret.some /\ ret.stmt.type = "Directive") => InstructionStopsAt(pos)
  /\ (ret.some /\ ret.stmt.type = "Instruction") => DirectiveStopsAt(pos)

\* C14, amended: the name is the directive token's text without its `@`, the
\* arguments are the maximal run of identifier, string and integer tokens in
\* source order (integers as decimal numerals), the first token of another
\* kind ends the run and stays at the cursor; the run stops wherever an
\* instruction's run would stop and, unlike an instruction's, at a character
\* literal as well.
C14_DirectiveParse ==
  /\ DirectiveRun
  /\ (ret.some /\ ret.stmt.type = "Directive")
       => \/ InstructionStopsAt(pos)
          \/ tokens[pos + 1].kind.tag = "CharLit"
  /\ (ret.some /\ ret.stmt.type = "Instruction") => DirectiveStopsAt(pos)
  /\ (input = Join(T_directive) /\ ret.some)
       => /\ ret.stmt = Directive(<<"d">>, <<w_x, w_str, w_5>>)
          /\ pos = 4
          /\ tokens[pos + 1].kind.tag = "CharLit"

C14_Witness ==
  /\ input = Join(T_directive)
  /\ ret.some
  /\ ret.stmt = Directive(<<"d">>, <<w_x, w_str, w_5>>)
  /\ pos = 4
  /\ tokens[pos + 1].kind.tag = "CharLit"
  /\ ~InstructionStopsAt(pos)

\* C15: `include` and a string literal is Include(path), the path being the
\* literal's raw text (quotes and escapes as written), returned with exactly
\* those two tokens consumed; `include` and a token of another kind is fatal
\* and no node is produced.
C15_IncludeParse ==
  /\ (ret.some /\ ret.stmt.type = "Include")
       => /\ pos >= 2
          /\ tokens[pos - 1].kind = Unit("Include")
          /\ tokens[pos].kind.tag = "StrLit"
          /\ ret.stmt.file = tokens[pos].text
  /\ \A c \in CasesOf(IncludeCases, IncludeInputs) :
       IF c.ok
       THEN /\ ~Panicked
            /\ (ret.some /\ ret.stmt.type = "Include") => ret.stmt = c.node /\ pos = 2
            /\ Done => ast = <<c.node>> \o c.after
       ELSE /\ ~Done
            /\ ast = <<>>
            /\ ~ret.some
            /\ Panicked
                 => /\ pos = 2
                    /\ Top.fn = "parse_include"
                    /\ err = "Expected string literal after include"

C15_Witness ==
  /\ input = Join(<<w_include, w_str_esc, w_nop>>)
  /\ ret.some
  /\ ret.stmt = Include(w_str_esc)
  /\ Len(ret.stmt.file) = 5
  /\ pos = 2
  /\ Len(tokens) = 3

\* The kinds of numeric token.
NumericTags == {"IntLit", "HexLit", "BinLit", "OctLit"}

\* The input is one numeric token of value n.
OneNumber(n) ==
  /\ Len(tokens) = 1
  /\ tokens[1].kind.tag \in NumericTags
  /\ tokens[1].kind.n = n
  /\ tokens[1].text = input

\* C16: a literal written with an upper-case radix prefix is one numeric
\* token with the value of its lower-case form: `0XFF` is 255, `0B1011` is
\* 11, `0O77` is 63, none of them a decimal 0 followed by an identifier.
C16_RadixPrefixCase ==
  /\ input = w_hex_upper => OneNumber(255) /\ tokens[1].kind.n = Lex(w_hex).toks[1].kind.n
  /\ input = w_bin_upper => OneNumber(11) /\ tokens[1].kind.n = Lex(w_bin).toks[1].kind.n
  /\ input = w_oct_upper => OneNumber(63) /\ tokens[1].kind.n = Lex(w_oct).toks[1].kind.n

\* The places of the code at which a running parser can be: one per action.
CodePositions ==
  {<<"parse", "loop">>, <<"parse", "after_stmt">>, <<"parse_statement", "dispatch">>,
   <<"parse_var", "entry">>, <<"parse_const", "entry">>, <<"parse_label", "entry">>,
   <<"parse_instruction", "entry">>, <<"parse_directive", "entry">>,
   <<"parse_include", "entry">>, <<"parse_macro", "entry">>, <<"parse_macro", "after_block">>,
   <<"parse_for_loop", "entry">>, <<"parse_for_loop", "after_block">>,
   <<"parse_block", "entry">>, <<"parse_block", "loop">>, <<"parse_block", "after_stmt">>,
   <<"parse_block", "close">>}

\* A statement-parse attempt of the top-level loop or of the block loop has ended.
AfterAttempt == At("parse", "after_stmt") \/ At("parse_block", "after_stmt")

\* C17: parsing terminates: no run of the parser goes on for ever, and a
\* parser that has not ended is at a place of the code from which it steps
\* on; Parser::parse returns with the cursor at the end of the tokens (or the
\* pass ended in a fatal error); the cursor never moves backwards; an
\* attempt that returned a statement consumed at least one token, every
\* iteration of the top-level loop and of the block loop ends with the
\* cursor beyond where it began, and so does the macro parameter loop from
\* every token.  (<>[][FALSE]_vars: every behaviour takes finitely many
\* steps.  It holds without a fairness condition, so of every run.)
C17_Terminates ==
  /\ <>[][FALSE]_vars
  /\ [](status \in {"running", "done", "panic"})
  /\ [](status = "running" => stack # <<>> /\ <<Top.fn, Top.pc>> \in CodePositions)
  /\ [](Done => pos = Len(tokens) /\ stack = <<>>)
  /\ [][pos' >= pos]_vars
  /\ []((AfterAttempt /\ ret.some) => pos > Top.from)
  /\ [][AfterAttempt => pos' > Top.from]_vars
  /\ [](\A p \in 0..(Len(tokens) - 1) : macro_params(tokens, p, <<>>).pos > p)

C17_Witness ==
  /\ input = Join(<<w_plus, w_var, w_x, w_eq, w_5>>)
  /\ Done
  /\ pos = Len(tokens)
  /\ pos = 5
  /\ ast = <<Instruction(w_x, <<>>)>>

\* The blocks that are open: the calls of parse_block past their `{`.
OpenBlocks == Cardinality({k \in 1..Len(stack) : stack[k].fn = "parse_block" /\ stack[k].pc # "entry"})

\* C18: on a balanced text whose braces hold statements only, each `}`
\* closes the innermost open block: while the parser runs the open blocks
\* are as many as the `{` consumed and not yet matched by a `}`, the result
\* is the one node whose bodies nest as the braces do, the statements behind
\* an inner block being in the outer one, and `{ }` is the empty body.
C18_NestedBlocks ==
  /\ \A c \in CasesOf(NestCases, NestInputs) :
       /\ ~Panicked
       /\ status = "running"
            => OpenBlocks = CountTag(tokens, pos, "LeftBrace") - CountTag(tokens, pos, "RightBrace")
       /\ Done => ast = <<c.node>>
  /\ (input = Join(<<w_lbrace, w_rbrace>>) /\ Done) => ast = <<Block(<<>>)>>

C18_Witness ==
  /\ input \in NestInputs
  /\ Done
  /\ ast[1].type = "Block"
  /\ Len(ast[1].body) = 3
  /\ ast[1].body[2].type = "Block"
  /\ Len(ast[1].body[2].body) = 3
  /\ ast[1].body[2].body[1].type = "VarAssign"
  /\ ast[1].body[2].body[2] = Block(<<Instruction(w_nop, <<>>)>>)
  /\ ast[1].body[2].body[3].type = "Instruction"

====
